---- MODULE Spec2Model ----
(***************************************************************************)
(* Model of nsidc_subset_altimetry.py: main() and nsidc_subset_altimetry(). *)
(* One run of the program: the connectivity probe, the loop over the        *)
(* product codes and, per product, session construction, query encoding,   *)
(* the HTTP request and the delivery of the response (archive or unzip).   *)
(***************************************************************************)
EXTENDS Integers, Sequences, FiniteSets, TLC

VARIABLES
    arglist,      \* positional arguments: the product codes (main, line 206)
    VERSION,      \* --version, "None" when not given (line 209/229)
    BBOX,         \* --bbox as a tuple of numbers, <<>> for None (line 210/231)
    TIME,         \* --time split at ',', <<>> for None (line 211/233)
    FORMAT,       \* --format, "None" when not given (line 212/235)
    MODE,         \* permission mode (line 217/237)
    UNZIP,        \* --unzip (line 219/241)
    pc,           \* position of the single thread of control
    err,          \* the exception that ended the run, "none" otherwise
    connected,    \* outcome of check_connection: "unknown", "ok", "fail"
    p,            \* index into arglist of the for loop of line 281
    clock,        \* wall clock in whole seconds
    today,        \* time.strftime(...) of line 148, -1 before
    remote_file,  \* the URL built at line 144
    nsessions,    \* number of openers built and installed (lines 95-115)
    cookie_jar,   \* cookies held by the CookieJar of the installed opener
    requests,     \* the requests issued to the subsetting endpoint, in order
    members,      \* remote_data.filelist of the archive being extracted
    m,            \* position of the loop of line 162
    fs,           \* the file system: path -> [kind, mode, data]
    fs0           \* the file system when the current call was entered

vars == <<arglist, VERSION, BBOX, TIME, FORMAT, MODE, UNZIP, pc, err,
          connected, p, clock, today, remote_file, nsessions, cookie_jar,
          requests, members, m, fs, fs0>>

opts == <<arglist, VERSION, BBOX, TIME, FORMAT, MODE, UNZIP>>

-----------------------------------------------------------------------------
(* Bounds of the model *)

MaxProducts == 2

MaxClock == 1

-----------------------------------------------------------------------------
(* Products and options *)

\* The keys of the dictionary P of main (two of the fourteen codes).
P == {"ATL06", "GLAH12"}

\* What may be typed as a positional argument: product codes and a mistyped one.
Codes == P \cup {"BOGUS"}

RECURSIVE SeqsUpTo(_, _)
SeqsUpTo(S, n) ==
    IF n = 0 THEN {<<>>}
    ELSE LET shorter == SeqsUpTo(S, n - 1)
         IN  shorter \cup {Append(s, x) : s \in {t \in shorter : Len(t) = n - 1}, x \in S}

\* Permission modes: main's default 0o775 and one given with --mode.
Modes == {"0o775", "0o600"}

\* Mode of a file or directory the process creates (0o666 or 0o777 masked by
\* the umask), before any chmod.
CreatedMode == "umask"

-----------------------------------------------------------------------------
(* The query encoder: lines 120-145 of nsidc_subset_altimetry *)

\* Strings given with --time. dateutil.parser.parse reads the first two and
\* raises ValueError on the third.
TimeStrings == {"2018-11-23T00:00:00", "2018-11-23 23:59:59", "garbage"}

\* Whether dateutil.parser.parse(s) returns a datetime.
Parseable(s) == s \in {"2018-11-23T00:00:00", "2018-11-23 23:59:59"}

\* dateutil.parser.parse(s).isoformat() of a parseable string: the ISO-8601
\* form with the 'T' separator.
isoformat(s) ==
    CASE s = "2018-11-23T00:00:00" -> "2018-11-23T00:00:00"
      [] s = "2018-11-23 23:59:59" -> "2018-11-23T23:59:59"

\* '{0:f}'.format(x): fixed point with six decimals. A float with at most six
\* decimals is held as its number of millionths.
FormatF(x) ==
    LET a == IF x < 0 THEN -x ELSE x
    IN  [neg |-> x < 0, whole |-> a \div 1000000, frac |-> a % 1000000]

\* Python's truth value of an option string: None and '' are false.
Truthy(s) == s # "None" /\ s # ""

\* One '?key=value' or '&key=value' piece of the URL.
Flag(key, val) == <<[key |-> key, val |-> val]>>

\* line 121
product_flag(PRODUCT) == Flag("short_name", <<PRODUCT>>)

\* line 122
version_flag(version) ==
    IF Truthy(version) THEN Flag("version", <<version>>) ELSE <<>>

\* lines 124-130, for a TIME both of whose strings parse
time_flag(time) ==
    IF time # <<>>
    THEN Flag("time", <<isoformat(time[1]), isoformat(time[2])>>)
    ELSE <<>>

\* lines 133-138, the bounding_box parameter
bounds_flag(bbox) ==
    IF bbox # <<>>
    THEN Flag("bounding_box", <<FormatF(bbox[1]), FormatF(bbox[2]),
                                FormatF(bbox[3]), FormatF(bbox[4])>>)
    ELSE <<>>

\* lines 133-138, the bbox parameter
bbox_flag(bbox) ==
    IF bbox # <<>>
    THEN Flag("bbox", <<FormatF(bbox[1]), FormatF(bbox[2]),
                        FormatF(bbox[3]), FormatF(bbox[4])>>)
    ELSE <<>>

\* line 140
format_flag(format) ==
    IF Truthy(format) THEN Flag("format", <<format>>) ELSE <<>>

\* line 143
HOST == "https://n5eil02u.ecs.nsidc.org/egi/request"

\* The value of remote_file before line 144 has run.
NoURL == [host |-> "", query |-> <<>>]

\* The pieces with the time before the spatial filter.
RemoteFileReordered(PRODUCT, version, bbox, time, format) ==
    [host  |-> HOST,
     query |-> product_flag(PRODUCT) \o version_flag(version) \o
               time_flag(time) \o bounds_flag(bbox) \o bbox_flag(bbox) \o
               format_flag(format)]

\* lines 144-145: the pieces in the order of the format string
RemoteFile(PRODUCT, version, bbox, time, format) ==
    [host  |-> HOST,
     query |-> product_flag(PRODUCT) \o version_flag(version) \o
               bounds_flag(bbox) \o bbox_flag(bbox) \o
               time_flag(time) \o format_flag(format)]

\* The exception lines 121-145 raise, "none" when they run through: the time
\* strings are parsed first (ValueError; IndexError when TIME has one
\* element), then the bounding box is formatted (IndexError when it has fewer
\* than four numbers).
QueryError(bbox, time) ==
    CASE time # <<>> /\ ~Parseable(time[1])               -> "ValueError"
      [] time # <<>> /\ Len(time) < 2                     -> "IndexError"
      [] time # <<>> /\ ~Parseable(time[2])               -> "ValueError"
      [] bbox # <<>> /\ Len(bbox) < 4                     -> "IndexError"
      [] OTHER                                            -> "none"

-----------------------------------------------------------------------------
(* Paths and the file system *)

\* A path is a sequence of components below the root; a component is a plain
\* name, or a name made of a product code and a time stamp.
Comp(n) == [n |-> n, t |-> -1, e |-> ""]

\* DIRECTORY of main (line 215/227), an existing directory.
filepath == <<Comp("w")>>

\* '{0}_{1}.zip'.format(PRODUCT,today), line 171. strftime renders the clock
\* to the second, so two stamps are equal exactly when the seconds are.
ZipName(PRODUCT, t) == [n |-> PRODUCT, t |-> t, e |-> ".zip"]

\* '{0}_{1}'.format(PRODUCT,today), line 159
subdir(PRODUCT, t) == [n |-> PRODUCT, t |-> t, e |-> ""]

\* Member names an archive may hold: "a", "b", "../x" and "/w/x" (a name
\* split at '/': an absolute name starts with an empty component).
NameA == <<Comp("a")>>
NameB == <<Comp("b")>>
NameUp == <<Comp(".."), Comp("x")>>
NameAbs == <<Comp(""), Comp("w"), Comp("x")>>

\* The member lists of the archives the server may answer with.
Archives == {<<>>, <<NameA>>, <<NameA, NameB>>, <<NameA, NameA>>,
             <<NameUp>>, <<NameAbs>>}

\* The file outside every product directory that "../x" and "/w/x" name.
Outside == <<Comp("w"), Comp("x")>>

Dir == [kind |-> "dir", mode |-> CreatedMode, data |-> <<0, 0>>]

File(mode, data) == [kind |-> "file", mode |-> mode, data |-> data]

\* The file systems a run may start in: the working directory, with or
\* without a file x in it.
InitialFS == {filepath :> Dir,
              (filepath :> Dir) @@ (Outside :> File("0o600", <<0, 0>>))}

\* os.path.join(base, name): an absolute name replaces the base.
join(base, name) ==
    IF name # <<>> /\ name[1] = Comp("") THEN name ELSE base \o name

\* The file a path names once the kernel has resolved it: "" and "." stay in
\* place, ".." steps to the parent.
RECURSIVE realpath(_)
realpath(path) ==
    IF path = <<>> THEN <<>>
    ELSE LET front == realpath(SubSeq(path, 1, Len(path) - 1))
             last  == path[Len(path)]
         IN  CASE last \in {Comp(""), Comp(".")} -> front
               [] last = Comp("..") ->
                    IF front = <<>> THEN <<>>
                    ELSE SubSeq(front, 1, Len(front) - 1)
               [] OTHER -> Append(front, last)

\* zipfile.ZipFile._extract_member's arcname: the name without its empty,
\* "." and ".." components.
arcname(name) ==
    SelectSeq(name, LAMBDA c : c \notin {Comp(""), Comp("."), Comp("..")})

\* open(path,'wb') and the copy of the data: a new file has the mode the
\* umask gives, an existing one is truncated and keeps its mode.
open_wb(f, path, data) ==
    IF path \in DOMAIN f
    THEN [f EXCEPT ![path] = File(f[path].mode, data)]
    ELSE f @@ (path :> File(CreatedMode, data))

\* os.makedirs of the directories above path that do not exist.
makedirs(f, path) ==
    LET above == {SubSeq(path, 1, k) : k \in 1..(Len(path) - 1)}
    IN  f @@ [d \in above \ DOMAIN f |-> Dir]

\* remote_data.extract(member, path=base), line 165
extract(f, base, name, data) ==
    LET targetpath == base \o arcname(name)
    IN  open_wb(makedirs(f, targetpath), targetpath, data)

\* os.chmod(path, mode) of an existing path
chmod(f, path, mode) == [f EXCEPT ![path].mode = mode]

\* A local file named by the clock at the time of writing.
local_zip_now == filepath \o <<ZipName(arglist[p], clock)>>

\* local_file of line 171
local_zip == filepath \o <<ZipName(arglist[p], today)>>

\* os.path.join(filepath,subdir), lines 163 and 165
local_dir == filepath \o <<subdir(arglist[p], today)>>

\* local_file of line 163, as the kernel resolves it
local_member == realpath(join(local_dir, members[m]))

-----------------------------------------------------------------------------
(* main: lines 202-286 *)

\* The value every variable of a call has before the call sets it.
NoCall ==
    /\ today = -1
    /\ remote_file = NoURL
    /\ members = <<>>
    /\ m = 0

\* The state after the options are read (lines 209-241), before line 264.
Init ==
    /\ arglist \in SeqsUpTo(Codes, MaxProducts)
    /\ VERSION \in {"None", "001"}
    /\ BBOX = <<>>
    /\ TIME \in {<<>>,
                 <<"2018-11-23T00:00:00", "2018-11-23 23:59:59">>,
                 <<"2018-11-23T00:00:00", "garbage">>,
                 <<"garbage", "2018-11-23 23:59:59">>,
                 <<"2018-11-23T00:00:00">>}
    /\ FORMAT = "None"
    /\ MODE \in Modes
    /\ UNZIP \in BOOLEAN
    /\ pc = "main"
    /\ err = "none"
    /\ connected = "unknown"
    /\ p = 1
    /\ clock = 0
    /\ nsessions = 0
    /\ cookie_jar = {}
    /\ requests = <<>>
    /\ fs \in InitialFS
    /\ fs0 = fs
    /\ NoCall

\* raise: the exception ends the run.
Raise(e) ==
    /\ pc' = "failed"
    /\ err' = e

\* lines 264-267: no positional argument
NoArguments ==
    /\ pc = "main"
    /\ arglist = <<>>
    /\ Raise("Exception")
    /\ UNCHANGED <<opts, connected, p, clock, today, remote_file, nsessions,
                   cookie_jar, requests, members, m, fs, fs0>>

\* lines 269-275: the user name and the password are read
Credentials ==
    /\ pc = "main"
    /\ arglist # <<>>
    /\ pc' = "check"
    /\ UNCHANGED <<opts, err, connected, p, clock, today, remote_file,
                   nsessions, cookie_jar, requests, members, m, fs, fs0>>

\* check_connection, lines 80-87, the host answers: line 278 enters the loop
ConnectionOK ==
    /\ pc = "check"
    /\ connected' = "ok"
    /\ pc' = "loop"
    /\ UNCHANGED <<opts, err, p, clock, today, remote_file, nsessions,
                   cookie_jar, requests, members, m, fs, fs0>>

\* A probe whose failure is swallowed: the loop is entered all the same.
ConnectionFailsIgnored ==
    /\ pc = "check"
    /\ connected' = "fail"
    /\ pc' = "loop"
    /\ UNCHANGED <<opts, err, p, clock, today, remote_file, nsessions,
                   cookie_jar, requests, members, m, fs, fs0>>

\* check_connection, lines 80-87, URLError: RuntimeError leaves main
ConnectionFails ==
    /\ pc = "check"
    /\ connected' = "fail"
    /\ Raise("RuntimeError")
    /\ UNCHANGED <<opts, p, clock, today, remote_file, nsessions,
                   cookie_jar, requests, members, m, fs, fs0>>

\* line 281: the for loop has run through arglist
LoopDone ==
    /\ pc = "loop"
    /\ p > Len(arglist)
    /\ pc' = "done"
    /\ UNCHANGED <<opts, err, connected, p, clock, today, remote_file,
                   nsessions, cookie_jar, requests, members, m, fs, fs0>>

\* lines 282-283: the next code is no key of P
IncorrectProduct ==
    /\ pc = "loop"
    /\ p <= Len(arglist)
    /\ arglist[p] \notin P
    /\ Raise("IOError")
    /\ UNCHANGED <<opts, connected, p, clock, today, remote_file, nsessions,
                   cookie_jar, requests, members, m, fs, fs0>>

\* lines 284-286: nsidc_subset_altimetry is called for the next code
CallTransfer ==
    /\ pc = "loop"
    /\ p <= Len(arglist)
    /\ arglist[p] \in P
    /\ pc' = "session"
    /\ fs0' = fs
    /\ today' = -1
    /\ remote_file' = NoURL
    /\ UNCHANGED <<opts, err, connected, p, clock, nsessions, cookie_jar,
                   requests, members, m, fs>>

-----------------------------------------------------------------------------
(* nsidc_subset_altimetry: lines 90-186 *)

\* A call that goes on with the opener and the cookies of the call before.
ReuseSession ==
    /\ pc = "session"
    /\ nsessions' = IF nsessions = 0 THEN 1 ELSE nsessions
    /\ cookie_jar' = cookie_jar
    /\ pc' = "query"
    /\ UNCHANGED <<opts, err, connected, p, clock, today, remote_file,
                   requests, members, m, fs, fs0>>

\* lines 95-115: a password manager, an empty CookieJar and an opener are
\* made and the opener is installed in place of the one before
BuildSession ==
    /\ pc = "session"
    /\ nsessions' = nsessions + 1
    /\ cookie_jar' = {}
    /\ pc' = "query"
    /\ UNCHANGED <<opts, err, connected, p, clock, today, remote_file,
                   requests, members, m, fs, fs0>>

\* A query built from the raw strings when they do not parse.
QuerySilent ==
    /\ pc = "query"
    /\ QueryError(BBOX, TIME) # "none"
    /\ remote_file' = RemoteFile(arglist[p], VERSION, <<>>, <<>>, FORMAT)
    /\ today' = clock
    /\ pc' = "request"
    /\ UNCHANGED <<opts, err, connected, p, clock, nsessions, cookie_jar,
                   requests, members, m, fs, fs0>>

\* lines 121-140: a time string does not parse, or a tuple is too short
QueryFails ==
    /\ pc = "query"
    /\ QueryError(BBOX, TIME) # "none"
    /\ Raise(QueryError(BBOX, TIME))
    /\ UNCHANGED <<opts, connected, p, clock, today, remote_file, nsessions,
                   cookie_jar, requests, members, m, fs, fs0>>

\* lines 121-148: the URL is built and the time stamp is taken
BuildQuery ==
    /\ pc = "query"
    /\ QueryError(BBOX, TIME) = "none"
    /\ remote_file' = RemoteFile(arglist[p], VERSION, BBOX, TIME, FORMAT)
    /\ today' = clock
    /\ pc' = "request"
    /\ UNCHANGED <<opts, err, connected, p, clock, nsessions, cookie_jar,
                   requests, members, m, fs, fs0>>

\* What the request of the call records.
ThisRequest ==
    [p |-> p, product |-> arglist[p], url |-> remote_file,
     session |-> nsessions, cookies |-> cookie_jar, at |-> clock]

\* A transfer that opens its local file before it sends the request.
UrlopenAfterOpen ==
    /\ pc = "request"
    /\ requests' = Append(requests, ThisRequest)
    /\ fs' = IF UNZIP THEN makedirs(fs, local_dir \o NameA)
             ELSE open_wb(fs, local_zip, <<p, 0>>)
    /\ pc' = "wait"
    /\ UNCHANGED <<opts, err, connected, p, clock, today, remote_file,
                   nsessions, cookie_jar, members, m, fs0>>

\* lines 153-154 and 176-177: the GET is sent through the installed opener
Urlopen ==
    /\ pc = "request"
    /\ requests' = Append(requests, ThisRequest)
    /\ pc' = "wait"
    /\ UNCHANGED <<opts, err, connected, p, clock, today, remote_file,
                   nsessions, cookie_jar, members, m, fs, fs0>>

\* Time passes while urlopen waits for the server. The clock is read at line
\* 148 only, so seconds that pass elsewhere between two calls show as seconds
\* that passed here.
Tick ==
    /\ pc = "wait"
    /\ clock < MaxClock
    /\ clock' = clock + 1
    /\ UNCHANGED <<opts, pc, err, connected, p, today, remote_file, nsessions,
                   cookie_jar, requests, members, m, fs, fs0>>

\* A transfer whose failure is kept to its product: the loop goes on.
HTTPErrorIsolated ==
    /\ pc = "wait"
    /\ err' = "HTTPError"
    /\ pc' = "loop"
    /\ p' = p + 1
    /\ UNCHANGED <<opts, connected, clock, today, remote_file, nsessions,
                   cookie_jar, requests, members, m, fs, fs0>>

\* lines 154 and 177: the status is not 2xx, urlopen raises HTTPError
HTTPError ==
    /\ pc = "wait"
    /\ Raise("HTTPError")
    /\ UNCHANGED <<opts, connected, p, clock, today, remote_file, nsessions,
                   cookie_jar, requests, members, m, fs, fs0>>

\* line 177: a 2xx response in archive mode; the cookie jar of the opener
\* has recorded the session cookie of this request
ResponseArchive ==
    /\ pc = "wait"
    /\ ~UNZIP
    /\ cookie_jar' = cookie_jar \cup {p}
    /\ pc' = "write"
    /\ UNCHANGED <<opts, err, connected, p, clock, today, remote_file,
                   nsessions, requests, members, m, fs, fs0>>

\* lines 154-158: a 2xx response in unzip mode whose body is a zip archive
ResponseZip ==
    /\ pc = "wait"
    /\ UNZIP
    /\ cookie_jar' = cookie_jar \cup {p}
    /\ \E a \in Archives : members' = a
    /\ m' = 1
    /\ pc' = "extract"
    /\ UNCHANGED <<opts, err, connected, p, clock, today, remote_file,
                   nsessions, requests, fs, fs0>>

\* line 158: a 2xx response in unzip mode whose body is no zip archive
BadZipFile ==
    /\ pc = "wait"
    /\ UNZIP
    /\ cookie_jar' = cookie_jar \cup {p}
    /\ Raise("BadZipFile")
    /\ UNCHANGED <<opts, connected, p, clock, today, remote_file, nsessions,
                   requests, members, m, fs, fs0>>

\* lines 181-182: the body is copied to the local file
CopyFile ==
    /\ pc = "write"
    /\ fs' = open_wb(fs, local_zip, <<p, 0>>)
    /\ pc' = "chmod"
    /\ UNCHANGED <<opts, err, connected, p, clock, today, remote_file,
                   nsessions, cookie_jar, requests, members, m, fs0>>

\* line 186, and the return to the loop of main
ChmodArchive ==
    /\ pc = "chmod"
    /\ fs' = chmod(fs, local_zip, MODE)
    /\ pc' = "loop"
    /\ p' = p + 1
    /\ UNCHANGED <<opts, err, connected, clock, today, remote_file,
                   nsessions, cookie_jar, requests, members, m, fs0>>

\* lines 162-166: one member is extracted and local_file is given MODE;
\* os.chmod raises OSError when local_file names no file
ExtractMember ==
    /\ pc = "extract"
    /\ m <= Len(members)
    /\ LET extracted == extract(fs, local_dir, members[m], <<p, m>>)
       IN  IF local_member \in DOMAIN extracted
           THEN /\ fs' = chmod(extracted, local_member, MODE)
                /\ m' = m + 1
                /\ UNCHANGED <<pc, err>>
           ELSE /\ fs' = extracted
                /\ Raise("OSError")
                /\ UNCHANGED m
    /\ UNCHANGED <<opts, connected, p, clock, today, remote_file, nsessions,
                   cookie_jar, requests, members, fs0>>

\* line 168, and the return to the loop of main
CloseZip ==
    /\ pc = "extract"
    /\ m > Len(members)
    /\ pc' = "loop"
    /\ p' = p + 1
    /\ UNCHANGED <<opts, err, connected, clock, today, remote_file,
                   nsessions, cookie_jar, requests, members, m, fs, fs0>>

Next ==
    \/ NoArguments
    \/ Credentials
    \/ ConnectionOK
    \/ ConnectionFails
    \/ LoopDone
    \/ IncorrectProduct
    \/ CallTransfer
    \/ BuildSession
    \/ QueryFails
    \/ BuildQuery
    \/ Urlopen
    \/ Tick
    \/ HTTPError
    \/ ResponseArchive
    \/ ResponseZip
    \/ BadZipFile
    \/ CopyFile
    \/ ChmodArchive
    \/ ExtractMember
    \/ CloseZip

Spec == Init /\ [][Next]_vars

-----------------------------------------------------------------------------
(* The query encoder on its own: every combination of the options *)

\* -50.33333,68.56667,-49.33333,69.56667 in millionths of a degree, and a
\* --bbox with three numbers only.
BBoxes == {<<-50333330, 68566670, -49333330, 69566670>>,
           <<-50333330, 68566670, -49333330>>}

InitQuery ==
    /\ arglist \in {<<c>> : c \in P}
    /\ VERSION \in {"None", "", "001"}
    /\ BBOX \in {<<>>} \cup BBoxes
    /\ TIME \in SeqsUpTo(TimeStrings, 2)
    /\ FORMAT \in {"None", "", "NetCDF4-CF"}
    /\ MODE = "0o775"
    /\ UNZIP = FALSE
    /\ pc = "query"
    /\ err = "none"
    /\ connected = "ok"
    /\ p = 1
    /\ clock = 0
    /\ nsessions = 1
    /\ cookie_jar = {}
    /\ requests = <<>>
    /\ fs = (filepath :> Dir)
    /\ fs0 = fs
    /\ NoCall

NextQuery ==
    \/ QueryFails
    \/ BuildQuery

SpecQuery == InitQuery /\ [][NextQuery]_vars

-----------------------------------------------------------------------------
(* Properties *)

\* The positions inside a call of nsidc_subset_altimetry after its opener is
\* installed.
InCall == {"query", "request", "wait", "write", "chmod", "extract"}

\* C1: when the connectivity probe fails the run has failed with the
\* RuntimeError of check_connection, and no URL has been built, no opener has
\* been built and no request has been sent to the subsetting endpoint.
C1_ProbeFailureStopsRun ==
    connected = "fail" =>
        /\ pc = "failed"
        /\ err = "RuntimeError"
        /\ remote_file.host = ""
        /\ nsessions = 0
        /\ requests = <<>>

\* C1, its case: the probe has failed in a run over two correct product codes.
C1_Witness ==
    /\ connected = "fail"
    /\ Len(arglist) = 2
    /\ \A k \in 1..2 : arglist[k] \in P

LastDir == filepath \o <<subdir(arglist[p - 1], today)>>

\* Whether path q lies below directory d.
Below(q, d) == Len(q) > Len(d) /\ SubSeq(q, 1, Len(d)) = d

\* C3: when an unzip call has returned for an archive of N members, the
\* directory PRODUCT_timestamp holds exactly N files, each of mode MODE, and
\* every path outside the directory is as it was when the call was entered.
C3_ExtractStaysInDirectory ==
    (UNZIP /\ pc = "loop" /\ p > 1) =>
        LET inside == {q \in DOMAIN fs : Below(q, LastDir)}
            files  == {q \in inside : fs[q].kind = "file"}
        IN  /\ Cardinality(files) = Len(members)
            /\ \A q \in files : fs[q].mode = MODE
            /\ \A q \in DOMAIN fs \ (inside \cup {LastDir}) :
                  q \in DOMAIN fs0 /\ fs[q] = fs0[q]

\* The archive file of the call that returned last, named by the time at
\* which its request was sent.
LastZip == filepath \o <<ZipName(arglist[p - 1], requests[p - 1].at)>>

\* C4: when an archive call has returned, the file PRODUCT_timestamp.zip in
\* the working directory, stamped with the time at which the call started,
\* holds the body of the response and has mode MODE, and it is the only path
\* the call has written.
C4_ArchiveWritesOneFile ==
    (~UNZIP /\ pc = "loop" /\ p > 1) =>
        /\ LastZip \in DOMAIN fs
        /\ fs[LastZip] = File(MODE, <<p - 1, 0>>)
        /\ DOMAIN fs0 \subseteq DOMAIN fs
        /\ \A q \in DOMAIN fs \ {LastZip} : q \in DOMAIN fs0 /\ fs[q] = fs0[q]

\* C4, its case: an archive call has returned, and the clock moved on while
\* the response was awaited.
C4_Witness ==
    /\ ~UNZIP
    /\ pc = "loop"
    /\ p > 1
    /\ clock > requests[p - 1].at

\* C5: when urlopen raises HTTPError for a status that is not 2xx the run has
\* failed and the file system is as it was when the call was entered.
C5_HTTPErrorLeavesNoOutput ==
    err = "HTTPError" =>
        /\ pc = "failed"
        /\ fs = fs0

\* C5, its case: the request for the second product is refused in archive
\* mode, after the first product was delivered.
C5_Witness ==
    /\ err = "HTTPError"
    /\ ~UNZIP
    /\ p = 2

\* The keys of the query in their places.
Keys(q) == [k \in 1..Len(q) |-> q[k].key]

\* The keys in the order the claim fixes.
KeyOrder == <<"short_name", "version", "bounding_box", "bbox", "time", "format">>

\* The keys a query must show, given which options count as set.
ExpectedKeys(version, bbox, time, format) ==
    SelectSeq(KeyOrder,
              LAMBDA k : \/ k = "short_name"
                         \/ k = "version" /\ version
                         \/ k \in {"bounding_box", "bbox"} /\ bbox
                         \/ k = "time" /\ time
                         \/ k = "format" /\ format)

\* C6 as stated: the query starts with short_name=PRODUCT and shows version,
\* bounding_box, bbox, time and format, in that order, each exactly when its
\* option was given (is not None).
C6_ComponentsIffGiven ==
    remote_file.host # "" =>
        /\ remote_file.query[1] = [key |-> "short_name", val |-> <<arglist[p]>>]
        /\ Keys(remote_file.query) =
              ExpectedKeys(VERSION # "None", BBOX # <<>>, TIME # <<>>,
                           FORMAT # "None")

\* C6 as amended: as stated, but version and format show exactly when the
\* option was given and is not the empty string.
C6_ComponentsIffNonEmpty ==
    remote_file.host # "" =>
        /\ remote_file.query[1] = [key |-> "short_name", val |-> <<arglist[p]>>]
        /\ Keys(remote_file.query) =
              ExpectedKeys(VERSION \notin {"None", ""}, BBOX # <<>>,
                           TIME # <<>>, FORMAT \notin {"None", ""})

\* C6, its case: a query was built with a version, a time range and no
\* bounding box, the format given as the empty string.
C6_Witness ==
    /\ remote_file.host # ""
    /\ VERSION = "001"
    /\ BBOX = <<>>
    /\ TIME # <<>>
    /\ FORMAT = ""

\* C7: a file that was there when a transfer was entered, left by an earlier
\* transfer or older, is still there with its content while and after the
\* transfer writes.
C7_NeverOverwrites ==
    \A q \in DOMAIN fs0 :
        fs0[q].kind = "file" => (q \in DOMAIN fs /\ fs[q].data = fs0[q].data)

\* C8: when a positional argument is no product code, no request is sent for
\* any product of the list.
C8_InvalidCodeNoRequest ==
    (\E k \in 1..Len(arglist) : arglist[k] \notin P) => requests = <<>>

\* Whether the start or the end string of TIME does not parse.
BadTime ==
    /\ TIME # <<>>
    /\ \/ ~Parseable(TIME[1])
       \/ Len(TIME) >= 2 /\ ~Parseable(TIME[2])

\* C9: when the start or the end string of TIME does not parse, no call gets
\* past the parsing: no URL is built, no request is sent, the file system is
\* the initial one, and a run that failed inside a call failed with the
\* ValueError of the parser.
C9_BadTimeNoRequest ==
    BadTime =>
        /\ pc \notin (InCall \ {"query"}) \cup {"done"}
        /\ remote_file.host = ""
        /\ requests = <<>>
        /\ fs = fs0
        /\ fs \in InitialFS
        /\ (pc = "failed" /\ nsessions > 0) => err = "ValueError"

\* C9, its case: the end string did not parse and the call has failed.
C9_Witness ==
    /\ err = "ValueError"
    /\ Parseable(TIME[1])
    /\ ~Parseable(TIME[2])

\* C10: the k-th request is the one for the k-th product, it is sent only
\* when the loop has reached k, that is when the calls for the products
\* before have returned, and an exception ends the run: no step follows it.
C10_OneAtATimeInOrder ==
    /\ \A k \in 1..Len(requests) :
          /\ requests[k].p = k
          /\ requests[k].product = arglist[k]
    /\ Len(requests) <= p
    /\ pc \in {"loop", "session", "query", "request", "done"} =>
          Len(requests) = p - 1
    /\ err # "none" => (pc = "failed" /\ ~ENABLED Next)

\* C10, its case: the transfer of the first of two correct products has
\* failed; one request has been sent.
C10_Witness ==
    /\ err = "HTTPError"
    /\ Len(requests) = 1
    /\ Len(arglist) = 2
    /\ arglist[2] \in P

====
